---- MODULE Spec2Model ----
(***************************************************************************)
(* SmartBill (src/e.py): a Streamlit page with a signup/login gate backed  *)
(* by an SQLite table `users`, and a prediction form behind the gate.      *)
(*                                                                         *)
(* Several browser sessions run the script concurrently against the one    *)
(* database file.  Each session owns its st.session_state (logged_in,      *)
(* username, last_prediction); the users table and the load_models cache   *)
(* are shared.                                                             *)
(*                                                                         *)
(* Text is modelled as a sequence of Unicode code points (32 is a space,    *)
(* 97 is "a"), so that str.strip() is computed and not assumed.            *)
(***************************************************************************)
EXTENDS Naturals, Sequences, FiniteSets

VARIABLES
    store,            \* rows of table users, in insertion order
    logged_in,        \* st.session_state.logged_in, per session
    username,         \* st.session_state.username, per session (None or Some)
    last_prediction,  \* st.session_state.last_prediction, per session
    pc,               \* where a session's script is: "idle" (waiting for the user),
                      \* "insert" (inside create_user), "rerun" (st.rerun() pending)
    frame,            \* locals of a create_user call in progress
    msg,              \* what the last script run of the session reported
    page,             \* what the last script run of the session rendered
    cache,            \* st.cache_resource entry of load_models is live
    loadable          \* joblib can load both model files

vars == <<store, logged_in, username, last_prediction, pc, frame, msg, page,
          cache, loadable>>

----------------------------------------------------------------------------
(* Bounds and input sets *)

\* Cap on the rows of table users (guards the INSERT).  With UNIQUE usernames
\* the table holds at most one row per stripped username typed, so the cap is
\* reached only if uniqueness is lost.
MaxRows == 3

\* The browser sessions.
Sessions == {"s1", "s2"}

\* The code points str.strip() removes (those for which str.isspace() holds):
\* tab, LF, VT, FF, CR, FS, GS, RS, US, space, NEL, NBSP and the Unicode blanks.
Whitespace ==
    (9..13) \cup (28..32) \cup {133, 160, 5760} \cup (8192..8202)
        \cup {8232, 8233, 8239, 8287, 12288}

\* Values typed into the username boxes: "", " ", LF "a" NBSP, "b".
UsernameInputs ==
    { <<>>, <<32>>, <<10, 97, 160>>, <<98>> }

\* Values typed into the password boxes: "", " ", "p", "P", "p ".
PasswordInputs ==
    { <<>>, <<32>>, <<112>>, <<80>>, <<112, 32>> }

\* Outputs of the two opaque predictors.
Voltages == { 230 }
Bills == { 1400 }

\* Python's None and a present value.
None == <<>>
Some(v) == <<v>>

NoFrame == [new_user |-> <<>>, new_pass |-> <<>>, username |-> <<>>, password |-> <<>>]

----------------------------------------------------------------------------
(* str.strip() *)

RECURSIVE lstrip(_)
lstrip(s) ==
    IF s # <<>> /\ Head(s) \in Whitespace THEN lstrip(Tail(s)) ELSE s

RECURSIVE rstrip(_)
rstrip(s) ==
    IF s # <<>> /\ s[Len(s)] \in Whitespace
    THEN rstrip(SubSeq(s, 1, Len(s) - 1))
    ELSE s

strip(s) == rstrip(lstrip(s))

----------------------------------------------------------------------------
(* Credential store: table users (id, username UNIQUE, password) *)

\* init_user_table on a fresh database file: the table exists and is empty.
init_user_table == <<>>

\* Rows whose username column equals u (SQLite compares TEXT byte for byte).
rows_named(st, u) == { i \in 1..Len(st) : st[i].username = u }

\* AUTOINCREMENT: one more than the largest id ever used (rows are never deleted).
next_id(st) == Len(st) + 1

\* create_user, lines 38-40: strip the username only, then reject empties.
create_user_check(uname, password) ==
    LET u == strip(uname) IN
    [ username |-> u,
      password |-> password,
      empty    |-> (u = <<>> \/ password = <<>>) ]

\* A wrong INSERT: no UNIQUE constraint on username.
insert_user_no_unique(st, u, password) ==
    [ ok    |-> TRUE,
      msg   |-> "SignupOK",
      store |-> Append(st, [id |-> next_id(st), username |-> u, password |-> password]) ]

\* A wrong INSERT: INSERT OR REPLACE, the conflicting row takes the new password.
insert_user_or_replace(st, u, password) ==
    IF rows_named(st, u) # {}
    THEN [ ok    |-> FALSE,
           msg   |-> "DuplicateUsername",
           store |-> [ i \in 1..Len(st) |->
                        IF st[i].username = u
                        THEN [st[i] EXCEPT !.password = password]
                        ELSE st[i] ] ]
    ELSE [ ok    |-> TRUE,
           msg   |-> "SignupOK",
           store |-> Append(st, [id |-> next_id(st), username |-> u, password |-> password]) ]

\* A wrong INSERT: the password is stored stripped.
insert_user_stripped(st, u, password) ==
    IF rows_named(st, u) # {}
    THEN [ ok |-> FALSE, msg |-> "DuplicateUsername", store |-> st ]
    ELSE [ ok    |-> TRUE,
           msg   |-> "SignupOK",
           store |-> Append(st, [id |-> next_id(st), username |-> u,
                                 password |-> strip(password)]) ]

\* create_user, lines 42-54: the INSERT and its commit are one SQLite write
\* transaction; the UNIQUE constraint raises IntegrityError on a taken username.
insert_user(st, u, password) ==
    IF rows_named(st, u) # {}
    THEN [ ok |-> FALSE, msg |-> "DuplicateUsername", store |-> st ]
    ELSE [ ok    |-> TRUE,
           msg   |-> "SignupOK",
           store |-> Append(st, [id |-> next_id(st), username |-> u, password |-> password]) ]

\* A wrong SELECT: the password is stripped before the comparison.
validate_user_strip_password(st, uname, password) ==
    LET u    == strip(uname)
        rows == SelectSeq(st, LAMBDA r : r.username = u /\ strip(r.password) = strip(password))
    IN  rows # <<>>

\* validate_user, lines 57-67: strip the username, SELECT on both columns,
\* fetchone() is not None.
validate_user(st, uname, password) ==
    LET u    == strip(uname)
        rows == SelectSeq(st, LAMBDA r : r.username = u /\ r.password = password)
        row  == IF rows = <<>> THEN None ELSE Some(rows[1].id)
    IN  row # None

----------------------------------------------------------------------------
(* Session state *)

\* Lines 71-76: the defaults of a new session.
session_defaults ==
    [ logged_in |-> FALSE, username |-> None, last_prediction |-> None ]

\* The session state of session s as one record.
session_state(s) ==
    [ logged_in       |-> logged_in[s],
      username        |-> username[s],
      last_prediction |-> last_prediction[s] ]

\* A wrong logout: the username is left in place.
logout_keep_username(ss) ==
    [ logged_in |-> FALSE, username |-> ss.username, last_prediction |-> None ]

\* A wrong logout: the stored prediction is left in place.
logout_keep_prediction(ss) ==
    [ logged_in |-> FALSE, username |-> None, last_prediction |-> ss.last_prediction ]

\* logout, lines 79-82.
logout(ss) ==
    [ logged_in |-> FALSE, username |-> None, last_prediction |-> None ]

\* A wrong login branch: the session is logged in whatever validate_user said.
login_unchecked(ss, ok, user) ==
    [ ss EXCEPT !.logged_in = TRUE, !.username = Some(strip(user)) ]

\* A wrong login branch: the flag is set and the username is not.
login_no_username(ss, ok, user) ==
    IF ok THEN [ ss EXCEPT !.logged_in = TRUE ] ELSE ss

\* Login branch, lines 113-119: ok is validate_user's answer.
login(ss, ok, user) ==
    IF ok
    THEN [ ss EXCEPT !.logged_in = TRUE, !.username = Some(strip(user)) ]
    ELSE ss

----------------------------------------------------------------------------
(* Model provider *)

\* load_models under st.cache_resource, lines 132-139: a live cache entry is
\* returned without touching the files; otherwise both files are loaded
\* (files_ok: both joblib.load calls succeed), and a failed joblib.load raises
\* (nothing is cached).
load_models(c, files_ok) ==
    IF c \/ files_ok
    THEN [ ok |-> TRUE,  cache |-> TRUE ]
    ELSE [ ok |-> FALSE, cache |-> FALSE ]

\* Lines 252-255 written into the session state.
record_prediction(ss, v, b) ==
    [ ss EXCEPT !.last_prediction = Some([voltage |-> v, bill |-> b]) ]

----------------------------------------------------------------------------
(* Initial state: a fresh database, every session new, nothing cached *)

Init ==
    /\ store = init_user_table
    /\ logged_in = [s \in Sessions |-> session_defaults.logged_in]
    /\ username = [s \in Sessions |-> session_defaults.username]
    /\ last_prediction = [s \in Sessions |-> session_defaults.last_prediction]
    /\ pc = [s \in Sessions |-> "idle"]
    /\ frame = [s \in Sessions |-> NoFrame]
    /\ msg = [s \in Sessions |-> "None"]
    /\ page = [s \in Sessions |-> "auth"]
    /\ cache = FALSE
    /\ loadable \in BOOLEAN

\* Write record r into session s's state.
SetSession(s, r) ==
    /\ logged_in' = [logged_in EXCEPT ![s] = r.logged_in]
    /\ username' = [username EXCEPT ![s] = r.username]
    /\ last_prediction' = [last_prediction EXCEPT ![s] = r.last_prediction]

\* A script run of a logged-in session up to line 139: the page it renders and
\* what it reports, given load_models' result lm and the report on success.
RunMain(s, lm, okmsg) ==
    /\ cache' = lm.cache
    /\ page' = [page EXCEPT ![s] = IF lm.ok THEN "main" ELSE "error"]
    /\ msg' = [msg EXCEPT ![s] = IF lm.ok THEN okmsg ELSE "UncaughtException"]

----------------------------------------------------------------------------
(* Actions *)

\* "Sign up" pressed on the auth page (lines 100-104) and create_user entered
\* (lines 37-40): an empty argument returns at once, line 108 shows the error.
SignupBegin(s, u, p) ==
    /\ ~logged_in[s]
    /\ pc[s] = "idle"
    /\ LET c == create_user_check(u, p) IN
       IF c.empty
       THEN /\ msg' = [msg EXCEPT ![s] = "EmptyInput"]
            /\ UNCHANGED <<pc, frame>>
       ELSE /\ msg' = [msg EXCEPT ![s] = "None"]
            /\ pc' = [pc EXCEPT ![s] = "insert"]
            /\ frame' = [frame EXCEPT ![s] =
                           [ new_user |-> u, new_pass |-> p,
                             username |-> c.username, password |-> c.password ]]
    /\ UNCHANGED <<store, logged_in, username, last_prediction, page,
                   cache, loadable>>

\* create_user, lines 42-54, then lines 105-108 and st.stop().
SignupInsert(s) ==
    /\ pc[s] = "insert"
    /\ \/ Len(store) < MaxRows
       \/ rows_named(store, frame[s].username) # {}
    /\ LET r == insert_user(store, frame[s].username, frame[s].password) IN
       /\ store' = r.store
       /\ msg' = [msg EXCEPT ![s] = r.msg]
    /\ pc' = [pc EXCEPT ![s] = "idle"]
    /\ frame' = [frame EXCEPT ![s] = NoFrame]
    /\ UNCHANGED <<logged_in, username, last_prediction, page,
                   cache, loadable>>

\* "Login" pressed on the auth page, lines 110-119.  On success the run sets
\* the session state, reports success and ends in st.rerun() (line 117): the
\* auth page is still shown and the next script run of the session is pending.
\* Otherwise the run reports the error and stops at line 121.
Login(s, u, p) ==
    /\ ~logged_in[s]
    /\ pc[s] = "idle"
    /\ LET ok == validate_user(store, u, p) IN
       /\ SetSession(s, login(session_state(s), ok, u))
       /\ IF login(session_state(s), ok, u).logged_in
          THEN /\ msg' = [msg EXCEPT ![s] = "LoginOK"]
               /\ pc' = [pc EXCEPT ![s] = "rerun"]
          ELSE /\ msg' = [msg EXCEPT ![s] = "InvalidCredentials"]
               /\ UNCHANGED pc
    /\ UNCHANGED <<store, frame, page, cache, loadable>>

\* "Logout" pressed, lines 126-128: logout(), and the run ends in st.rerun():
\* the old page is still shown and the next script run is pending.  The button
\* is drawn before load_models, so it is there on the main and the error page.
Logout(s) ==
    /\ logged_in[s]
    /\ pc[s] = "idle"
    /\ SetSession(s, logout(session_state(s)))
    /\ msg' = [msg EXCEPT ![s] = "None"]
    /\ pc' = [pc EXCEPT ![s] = "rerun"]
    /\ UNCHANGED <<store, frame, page, cache, loadable>>

\* A script run with no button pressed: the one st.rerun() asked for, or one
\* started by a widget change (the radio of line 90, a text box, a number
\* input).  Logged out, lines 92-121 render the auth page, report nothing and
\* stop; logged in, the run goes on to load_models at line 139.
Rerun(s) ==
    /\ pc[s] \in {"idle", "rerun"}
    /\ IF logged_in[s]
       THEN RunMain(s, load_models(cache, loadable), "None")
       ELSE /\ msg' = [msg EXCEPT ![s] = "None"]
            /\ page' = [page EXCEPT ![s] = "auth"]
            /\ UNCHANGED cache
    /\ pc' = [pc EXCEPT ![s] = "idle"]
    /\ UNCHANGED <<store, logged_in, username, last_prediction, frame, loadable>>

\* "Predict" pressed (the button exists only on a rendered main page): the
\* script runs again; line 139 raises when the models cannot be loaded, and
\* the run ends there; otherwise lines 232-255 store the two predictions.
Predict(s, v, b) ==
    /\ logged_in[s]
    /\ pc[s] = "idle"
    /\ page[s] = "main"
    /\ LET lm == load_models(cache, loadable) IN
       /\ RunMain(s, lm, "Predicted")
       /\ IF lm.ok
          THEN SetSession(s, record_prediction(session_state(s), v, b))
          ELSE UNCHANGED <<logged_in, username, last_prediction>>
    /\ UNCHANGED <<store, pc, frame, loadable>>

\* The cache entry of load_models outlives its ttl of 3600 s.
CacheExpire ==
    /\ cache
    /\ cache' = FALSE
    /\ UNCHANGED <<store, logged_in, username, last_prediction, pc, frame,
                   msg, page, loadable>>

\* The environment: a model file appears, disappears or is corrupted.
ArtifactChange ==
    /\ loadable' = ~loadable
    /\ UNCHANGED <<store, logged_in, username, last_prediction, pc, frame,
                   msg, page, cache>>

Next ==
    \/ \E s \in Sessions, u \in UsernameInputs, p \in PasswordInputs : SignupBegin(s, u, p)
    \/ \E s \in Sessions : SignupInsert(s)
    \/ \E s \in Sessions, u \in UsernameInputs, p \in PasswordInputs : Login(s, u, p)
    \/ \E s \in Sessions : Logout(s)
    \/ \E s \in Sessions : Rerun(s)
    \/ \E s \in Sessions, v \in Voltages, b \in Bills : Predict(s, v, b)
    \/ CacheExpire
    \/ ArtifactChange

Spec == Init /\ [][Next]_vars

----------------------------------------------------------------------------
(* logout() as a function of the session state, called from any state *)

SessionUsernames == { None, Some(<<>>), Some(<<97>>), Some(<<98>>) }
SessionPredictions ==
    { None } \cup { Some([voltage |-> v, bill |-> b]) : v \in Voltages, b \in Bills }

\* Every session state, consistent or not; each session is about to call logout().
InitLogout ==
    /\ store = init_user_table
    /\ logged_in \in [Sessions -> BOOLEAN]
    /\ username \in [Sessions -> SessionUsernames]
    /\ last_prediction \in [Sessions -> SessionPredictions]
    /\ pc = [s \in Sessions |-> "call_logout"]
    /\ frame = [s \in Sessions |-> NoFrame]
    /\ msg = [s \in Sessions |-> "None"]
    /\ page = [s \in Sessions |-> "auth"]
    /\ cache = FALSE
    /\ loadable = TRUE

\* The call logout(), lines 79-82, and nothing else.
LogoutCall(s) ==
    /\ pc[s] = "call_logout"
    /\ SetSession(s, logout(session_state(s)))
    /\ pc' = [pc EXCEPT ![s] = "idle"]
    /\ UNCHANGED <<store, frame, msg, page, cache, loadable>>

NextLogout == \E s \in Sessions : LogoutCall(s)

SpecLogout == InitLogout /\ [][NextLogout]_vars

----------------------------------------------------------------------------
(* Properties *)

\* Some row of st has exactly this username and this password.
HasRow(st, u, p) ==
    \E i \in 1..Len(st) : st[i].username = u /\ st[i].password = p

\* Session s's create_user call returns in this step from its INSERT.
InsertReturns(s) == pc[s] = "insert" /\ pc'[s] = "idle"

\* C1: a createUser(username, password) that succeeds makes
\* validateUser(username, password) true, with the username as typed, and
\* every pair validateUser accepts stays accepted after any later step.
C1_CreateThenValidate ==
    [][ /\ \A s \in Sessions :
              (InsertReturns(s) /\ msg'[s] = "SignupOK")
                 => validate_user(store', frame[s].new_user, frame[s].new_pass)
        /\ store' # store =>
              \A u \in UsernameInputs, p \in PasswordInputs :
                  validate_user(store, u, p) => validate_user(store', u, p)
      ]_vars

\* C1 witness: a signup with surrounding whitespace in both fields succeeded,
\* a second user was created later, and a session logged in meanwhile.
C1_Witness ==
    /\ Len(store) = 2
    /\ store[1].password = <<112, 32>>
    /\ validate_user(store, <<10, 97, 160>>, <<112, 32>>)
    /\ \E s \in Sessions, t \in Sessions :
          msg[s] = "SignupOK" /\ logged_in[t]

\* C2 as stated: createUser on a username already present returns
\* DuplicateUsername for any password and leaves the store unchanged.
C2_Original ==
    [][ \A s \in Sessions :
          /\ \A u \in UsernameInputs, p \in PasswordInputs :
                (/\ pc[s] = "idle" /\ pc'[s] = "idle"
                 /\ rows_named(store, strip(u)) # {}
                 /\ SignupBegin(s, u, p))
                   => (msg'[s] = "DuplicateUsername" /\ store' = store)
          /\ (InsertReturns(s) /\ rows_named(store, frame[s].username) # {})
                => (msg'[s] = "DuplicateUsername" /\ store' = store)
      ]_vars

\* C2 amended: on a username already present, createUser leaves the store
\* unchanged for any password; it returns EmptyInput when the password is
\* empty, and DuplicateUsername when the password is not blank (its check
\* passes, and its INSERT on the taken username is refused).
C2_DuplicateLeavesStore ==
    [][ \A s \in Sessions :
          /\ \A u \in UsernameInputs, p \in PasswordInputs :
                (/\ pc[s] = "idle"
                 /\ rows_named(store, strip(u)) # {}
                 /\ SignupBegin(s, u, p))
                   => /\ store' = store
                      /\ p = <<>> => (pc'[s] = "idle" /\ msg'[s] = "EmptyInput")
                      /\ strip(p) # <<>> =>
                            /\ pc'[s] = "insert"
                            /\ frame'[s].username = strip(u)
                            /\ frame'[s].password = p
          /\ (InsertReturns(s) /\ rows_named(store, frame[s].username) # {})
                => (msg'[s] = "DuplicateUsername" /\ store' = store)
      ]_vars

\* C2 witness: a signup on a taken username, with another password than the
\* stored one, has returned DuplicateUsername.
C2_Witness ==
    /\ Len(store) = 1
    /\ store[1].username = <<97>>
    /\ store[1].password = <<112>>
    /\ \E s \in Sessions : msg[s] = "DuplicateUsername"

\* C3 as stated: createUser returns EmptyInput and adds no row whenever the
\* username or the password is empty or only whitespace.
C3_BlankIsEmptyInput ==
    [][ \A s \in Sessions, u \in UsernameInputs, p \in PasswordInputs :
          (/\ pc[s] = "idle"
           /\ strip(u) = <<>> \/ strip(p) = <<>>
           /\ SignupBegin(s, u, p))
             => (msg'[s] = "EmptyInput" /\ pc'[s] = "idle" /\ store' = store)
      ]_vars

\* C4: a session's username is set, and not empty, exactly when its
\* logged-in flag is true.
C4_UsernameIffLoggedIn ==
    \A s \in Sessions :
        IF logged_in[s]
        THEN username[s] # None /\ username[s][1] # <<>>
        ELSE username[s] = None

\* C4 witness: one session is logged in with a prediction stored while the
\* other, logged out, has just signed up.
C4_Witness ==
    \E s \in Sessions, t \in Sessions :
        /\ logged_in[s] /\ username[s] = Some(<<97>>) /\ last_prediction[s] # None
        /\ ~logged_in[t] /\ msg[t] = "SignupOK"

\* The last run of session s ended in a refused login or in a signup step.
RefusedOrSignup(s) ==
    \/ msg[s] \in {"InvalidCredentials", "EmptyInput", "SignupOK", "DuplicateUsername"}
    \/ pc[s] = "insert"

\* C5: sessions start logged out; a session becomes logged in only by a login
\* whose validate_user is true, and logged out only by logout; after a refused
\* login and after any signup step it is logged out with no username.
C5_Transitions ==
    /\ \A s \in Sessions : ~logged_in[s] /\ username[s] = None
    /\ [][ \A s \in Sessions :
             /\ (~logged_in[s] /\ logged_in'[s])
                   => \E u \in UsernameInputs, p \in PasswordInputs :
                         validate_user(store, u, p) /\ Login(s, u, p)
             /\ (logged_in[s] /\ ~logged_in'[s]) => Logout(s)
             /\ RefusedOrSignup(s)' => (~logged_in'[s] /\ username'[s] = None)
         ]_vars

\* C5 witness: one session has just logged in (its st.rerun() is pending), the
\* other was refused.
C5_Witness ==
    \E s \in Sessions, t \in Sessions :
        /\ logged_in[s] /\ msg[s] = "LoginOK" /\ pc[s] = "rerun"
        /\ ~logged_in[t] /\ msg[t] = "InvalidCredentials"

\* C6: once logout() has been called on a session, whatever its state was,
\* the session is logged out and its username and stored prediction are
\* cleared.
C6_LogoutClears ==
    \A s \in Sessions :
        pc[s] = "idle"
           => (~logged_in[s] /\ username[s] = None /\ last_prediction[s] = None)

\* C6 witness: logout() has returned in one session while the other still
\* holds a username and a prediction without being logged in.
C6_Witness ==
    \E s \in Sessions, t \in Sessions :
        /\ pc[s] = "idle" /\ ~logged_in[s]
        /\ pc[t] = "call_logout" /\ ~logged_in[t]
        /\ username[t] # None /\ last_prediction[t] # None

\* C7 as stated: when the models cannot be loaded, a prediction submission
\* ends in ModelUnavailable, stores nothing and leaves the session logged in.
C7_ModelUnavailable ==
    [][ \A s \in Sessions, v \in Voltages, b \in Bills :
          (Predict(s, v, b) /\ ~load_models(cache, loadable).ok)
             => /\ msg'[s] = "ModelUnavailable"
                /\ last_prediction'[s] = last_prediction[s]
                /\ logged_in'[s]
      ]_vars

\* C8: validate_user accepts exactly the pairs for which a row holds the
\* stripped username and the password as typed, and no login step ends
\* logged in for another pair or refused for such a pair.
C8_ExactMatch ==
    /\ [](\A u \in UsernameInputs, p \in PasswordInputs :
             validate_user(store, u, p) <=> HasRow(store, strip(u), p))
    /\ [][ \A s \in Sessions, u \in UsernameInputs, p \in PasswordInputs :
             ~ /\ ~logged_in[s] /\ pc[s] = "idle"
               /\ logged_in'[s] # HasRow(store, strip(u), p)
               /\ Login(s, u, p)
         ]_vars

\* C8 witness: with password "p" stored for "a", a login typed with whitespace
\* round the username succeeded, and "P" and "p " are refused.
C8_Witness ==
    /\ HasRow(store, <<97>>, <<112>>)
    /\ validate_user(store, <<10, 97, 160>>, <<112>>)
    /\ ~validate_user(store, <<97>>, <<80>>)
    /\ ~validate_user(store, <<97>>, <<112, 32>>)
    /\ \E s \in Sessions, t \in Sessions :
          /\ logged_in[s] /\ username[s] = Some(<<97>>)
          /\ msg[t] = "InvalidCredentials"

\* No two rows hold the same username.
UniqueUsernames ==
    \A i \in 1..Len(store), j \in 1..Len(store) :
        store[i].username = store[j].username => i = j

\* C9: under any interleaving of create_user calls the store never holds a
\* username twice; an INSERT on a free username succeeds and stores the
\* caller's password, an INSERT on a taken one returns DuplicateUsername and
\* changes nothing.
C9_ConcurrentSignup ==
    /\ []UniqueUsernames
    /\ [][ \A s \in Sessions :
             InsertReturns(s) =>
                IF rows_named(store, frame[s].username) # {}
                THEN msg'[s] = "DuplicateUsername" /\ store' = store
                ELSE /\ msg'[s] = "SignupOK"
                     /\ Len(store') = Len(store) + 1
                     /\ SubSeq(store', 1, Len(store)) = store
                     /\ store'[Len(store')].username = frame[s].username
                     /\ store'[Len(store')].password = frame[s].password
         ]_vars

\* C9 witness: two sessions were inside create_user with the same username
\* and different passwords; one has succeeded, the other is still to insert.
C9_Witness ==
    \E s \in Sessions, t \in Sessions :
        /\ pc[s] = "insert" /\ msg[t] = "SignupOK"
        /\ Len(store) = 1
        /\ store[1].username = frame[s].username
        /\ store[1].password # frame[s].password

\* C10: a session that holds a stored prediction is logged in.
C10_PredictionImpliesLoggedIn ==
    \A s \in Sessions : last_prediction[s] # None => logged_in[s]

\* C10 witness: one session holds a prediction, the other is on the auth page
\* with none.
C10_Witness ==
    \E s \in Sessions, t \in Sessions :
        /\ last_prediction[s] = Some([voltage |-> 230, bill |-> 1400])
        /\ ~logged_in[t] /\ last_prediction[t] = None /\ store # <<>>

====
